---- MODULE Spec2Model ----
(***************************************************************************)
(* A model of the two appraisal-PDF generators of this repository:         *)
(*   generate-hrms-pdf.js        the Vector Layout Engine (PDFKit)         *)
(*   generate-hrms-puppeteer.js  the Template Builder (HTML for Chromium)  *)
(*                                                                         *)
(* Lengths are integers in units of 1/Pt of a PDF point, so that mm(n),    *)
(* A4_WIDTH and A4_HEIGHT are exact.  Tab, section and page indexes are    *)
(* 1-based here; the code's idx is the model's index minus one.            *)
(***************************************************************************)
EXTENDS Integers, Sequences, FiniteSets, TLC

\* ------------------------------------------------------------------------
\* Units and the constants of generate-hrms-pdf.js
\* ------------------------------------------------------------------------

\* Units per PDF point: 12700 makes 72/25.4 and two decimals exact, 60 makes
\* the division by tabs.length exact for up to six tabs.
Pt == 60 * 12700

A4_WIDTH == 59528 * (Pt \div 100)

A4_HEIGHT == 84189 * (Pt \div 100)

mm(n) == n * 360 * (Pt \div 127)

Max(a, b) == IF a >= b THEN a ELSE b

\* generate: const margin = mm(18)
Margin == mm(18)

\* The content cursor below the tabs area: margin + mm(30)
ContentTop == Margin + mm(30)

\* drawSection: const cardPad = 14
cardPad == 14 * Pt

\* drawSection: const need = 110 (approx min height per comment card)
CommentNeed == 110 * Pt

\* ------------------------------------------------------------------------
\* Bounds and the input documents
\* ------------------------------------------------------------------------

\* A document has at most MaxItems tabs, sections and comments in total.
MaxItems == 4

\* Measured heights (doc.heightOfString) of the texts of the input.
SmallBody == 20 * Pt

\* The body height with which the second comment of a section that has no
\* description fits exactly: contentY + 110 = A4_HEIGHT - margin.
FitBody == (A4_HEIGHT - Margin) - CommentNeed - (52 * Pt)
           - (ContentTop + cardPad + mm(8) + mm(10))

BigBody == 600 * Pt

BodyHeights == {SmallBody, FitBody, BigBody}

\* 0 stands for a section without description
DescHeights == {0, 600 * Pt}

BehaviorLists == {<< >>, <<200 * Pt>>}

Labels == <<"Job Competencies", "Role Competencies", "Objectives">>

LabelOf(i) == Labels[((i - 1) % Len(Labels)) + 1]

NewTab(i) == [label |-> LabelOf(i), sections |-> << >>]

SectionShapes ==
    [description : DescHeights, behaviors : BehaviorLists, comments : {<< >>}]

\* The documents obtained from d by one more tab, section or comment.
Extend(d) ==
    LET n == Len(d)
        addTab == {Append(d, NewTab(n + 1))}
        addSec == IF n = 0 THEN {}
                  ELSE {[d EXCEPT ![n].sections = Append(@, s)] : s \in SectionShapes}
        addCom == IF n = 0 \/ Len(d[n].sections) = 0 THEN {}
                  ELSE LET k == Len(d[n].sections)
                       IN {[d EXCEPT ![n].sections[k].comments = Append(@, h)] :
                              h \in BodyHeights}
    IN addTab \cup addSec \cup addCom

RECURSIVE DocsOfSize(_)
DocsOfSize(n) ==
    IF n = 0 THEN {<< >>}
    ELSE UNION {Extend(d) : d \in DocsOfSize(n - 1)}

\* data.tabs of every document with at most MaxItems items
Docs == UNION {DocsOfSize(n) : n \in 0..MaxItems}

\* ------------------------------------------------------------------------
\* State of a run of the Vector Layout Engine
\* ------------------------------------------------------------------------
VARIABLES
    data,      \* the parsed input document, [meta, tabs]
    doc,       \* the PDFDocument: its pages with what was drawn on each,
               \* its named destinations and its outline
    pc,        \* where generate() stands
    idx,       \* generate: the tab of the running tabs.forEach iteration
    sIdx,      \* generate: the section of the running sections.forEach
    y,         \* generate: let y (the cursor drawSection returns)
    destMap,   \* generate: named destination per tab
    pageMap,   \* generate: first page per tab
    html,      \* Template Builder: what buildHTML(data) returned
    arg,       \* esc: the value it is called with; parseArgs: process.argv.slice(2)
    res,       \* esc: the string it returned; parseArgs: the object it returned
    proc       \* main: the generator run as a process (steps, output, exit status)

layoutVars == <<doc, pc, idx, sIdx, y, destMap, pageMap>>

vars == <<data, doc, pc, idx, sIdx, y, destMap, pageMap, html, arg, res, proc>>

\* The value of a variable that a run does not use or has not set yet
None == [t |-> "none"]

\* ------------------------------------------------------------------------
\* The drawing backend (PDFDocument), as the calls of the code use it
\* ------------------------------------------------------------------------

\* A fresh page; tab remembers the forEach iteration that started it.
NewPage(owner) ==
    [tab |-> owner, header |-> 0, pills |-> << >>, footer |-> 0, blocks |-> << >>]

\* new PDFDocument(...): one automatically created first page
NewDocument(linkOK) ==
    [pages |-> <<NewPage(0)>>, dests |-> << >>, outline |-> << >>,
     refused |-> {}, calls |-> << >>, linkOK |-> linkOK]

\* doc.page.number
PageNumber(d) == Len(d.pages)

\* addPage leaving an empty page behind: two pages per call
addPageTwice(d, owner) ==
    [d EXCEPT !.pages = Append(Append(@, NewPage(owner)), NewPage(owner))]

\* doc.addPage()
addPage(d, owner) == [d EXCEPT !.pages = Append(@, NewPage(owner))]

\* A drawing call on the current page
Draw(d, block) == [d EXCEPT !.pages[Len(d.pages)].blocks = Append(@, block)]

NoLink == [kind |-> "none", target |-> 0]

\* ------------------------------------------------------------------------
\* drawTabs, ensureSpace, drawHeader, drawPageScaffold
\* ------------------------------------------------------------------------

\* The pill without the page-number fallback: no link unless the tab has a
\* named destination
PillNoFallback(d, tabs, i, activeIndex, m, dMap, pMap) ==
    LET top   == m - mm(6)
        barH  == mm(18)
        gap   == mm(3)
        usableW == A4_WIDTH - m * 2
        eachW == Max(mm(28), (usableW - gap * (Len(tabs) - 1)) \div Len(tabs))
        x == m + (i - 1) * (eachW + gap)
        py == top + mm(2)
        h == barH - mm(4)
        link == IF i \in DOMAIN dMap /\ d.linkOK
                THEN [kind |-> "goTo", target |-> dMap[i],
                      x |-> x, y |-> py, w |-> eachW, h |-> h]
                ELSE NoLink
    IN [idx |-> i, label |-> tabs[i].label, active |-> (i = activeIndex),
        x |-> x, y |-> py, w |-> eachW, h |-> h, link |-> link]

\* The pill of tab i as drawTabs draws it, with the link annotation it
\* attaches (doc.link throws when the backend rejects links).
Pill(d, tabs, i, activeIndex, m, dMap, pMap) ==
    LET top   == m - mm(6)
        barH  == mm(18)
        gap   == mm(3)
        usableW == A4_WIDTH - m * 2
        eachW == Max(mm(28), (usableW - gap * (Len(tabs) - 1)) \div Len(tabs))
        x == m + (i - 1) * (eachW + gap)
        py == top + mm(2)
        h == barH - mm(4)
        link == IF i \in DOMAIN dMap
                THEN IF d.linkOK
                     THEN [kind |-> "goTo", target |-> dMap[i],
                           x |-> x, y |-> py, w |-> eachW, h |-> h]
                     ELSE NoLink
                ELSE IF i \in DOMAIN pMap
                     THEN IF d.linkOK
                          THEN [kind |-> "page", target |-> pMap[i],
                                x |-> x, y |-> py, w |-> eachW, h |-> h]
                          ELSE NoLink
                     ELSE NoLink
    IN [idx |-> i, label |-> tabs[i].label, active |-> (i = activeIndex),
        x |-> x, y |-> py, w |-> eachW, h |-> h, link |-> link]

drawTabs(d, tabs, activeIndex, margin, dMap, pMap) ==
    [d EXCEPT !.pages[Len(d.pages)].pills =
        @ \o [i \in 1..Len(tabs) |-> Pill(d, tabs, i, activeIndex, margin, dMap, pMap)]]

\* ensureSpace with the comparison made strict: a block that fits exactly
\* breaks the page.
ensureSpaceStrict(d, cy, need, margin, activeIndex, tabs, dMap, pMap) ==
    IF cy + need < A4_HEIGHT - margin
    THEN [doc |-> [d EXCEPT !.calls = Append(@,
                      [y |-> cy, need |-> need, ret |-> cy,
                       before |-> Len(d.pages), after |-> Len(d.pages)])],
          y |-> cy]
    ELSE LET d1 == addPage(d, activeIndex)
             d2 == drawTabs(d1, tabs, activeIndex, margin, dMap, pMap)
         IN [doc |-> [d2 EXCEPT !.calls = Append(@,
                         [y |-> cy, need |-> need, ret |-> margin + mm(30),
                          before |-> Len(d.pages), after |-> Len(d2.pages)])],
             y |-> margin + mm(30)]

\* ensureSpace redrawing the bar of the new page with the first tab active
ensureSpaceFirstActive(d, cy, need, margin, activeIndex, tabs, dMap, pMap) ==
    IF cy + need <= A4_HEIGHT - margin
    THEN [doc |-> [d EXCEPT !.calls = Append(@,
                      [y |-> cy, need |-> need, ret |-> cy,
                       before |-> Len(d.pages), after |-> Len(d.pages)])],
          y |-> cy]
    ELSE LET d1 == addPage(d, activeIndex)
             d2 == drawTabs(d1, tabs, 1, margin, dMap, pMap)
         IN [doc |-> [d2 EXCEPT !.calls = Append(@,
                         [y |-> cy, need |-> need, ret |-> margin + mm(30),
                          before |-> Len(d.pages), after |-> Len(d2.pages)])],
             y |-> margin + mm(30)]

\* Returns the document and the cursor; every call is noted in d.calls.
ensureSpace(d, cy, need, margin, activeIndex, tabs, dMap, pMap) ==
    IF cy + need <= A4_HEIGHT - margin
    THEN [doc |-> [d EXCEPT !.calls = Append(@,
                      [y |-> cy, need |-> need, ret |-> cy,
                       before |-> Len(d.pages), after |-> Len(d.pages)])],
          y |-> cy]
    ELSE LET d1 == addPage(d, activeIndex)
             d2 == drawTabs(d1, tabs, activeIndex, margin, dMap, pMap)
         IN [doc |-> [d2 EXCEPT !.calls = Append(@,
                         [y |-> cy, need |-> need, ret |-> margin + mm(30),
                          before |-> Len(d.pages), after |-> Len(d2.pages)])],
             y |-> margin + mm(30)]

drawHeader(d, meta, margin) ==
    [d EXCEPT !.pages[Len(d.pages)].header = @ + 1]

drawPageScaffold(d, meta, tabs, activeIndex, margin, dMap, pMap) ==
    drawTabs(drawHeader(d, meta, margin), tabs, activeIndex, margin, dMap, pMap)

footer(d, margin) ==
    [d EXCEPT !.pages[Len(d.pages)].footer = @ + 1]

\* ------------------------------------------------------------------------
\* commentCard, paragraph, drawSection
\* ------------------------------------------------------------------------

\* commentCard: h = pad + headerH + 6 + bodyH + pad, drawn at cy; returns h + 2
commentCardH(bodyH) == (10 * Pt) + (16 * Pt) + (6 * Pt) + bodyH + (10 * Pt)

Block(kind, sec, top, h) == [kind |-> kind, sec |-> sec, top |-> top, h |-> h]

\* section.comments.forEach, from comment k on; st = [doc, y] with y = contentY
RECURSIVE drawComments(_, _, _, _, _, _, _, _, _)
drawComments(st, comments, k, sec, margin, activeIndex, tabs, dMap, pMap) ==
    IF k > Len(comments) THEN st
    ELSE LET r  == ensureSpace(st.doc, st.y, CommentNeed, margin, activeIndex,
                               tabs, dMap, pMap)
             h  == commentCardH(comments[k])
             d1 == Draw(r.doc, Block("comment", sec, r.y, h))
             ch == h + 2 * Pt
         IN drawComments([doc |-> d1, y |-> r.y + ch + 8 * Pt], comments, k + 1,
                         sec, margin, activeIndex, tabs, dMap, pMap)

\* section.behaviors.forEach, from behavior k on
RECURSIVE drawBehaviors(_, _, _, _)
drawBehaviors(st, behaviors, k, sec) ==
    IF k > Len(behaviors) THEN st
    ELSE drawBehaviors(
            [doc |-> Draw(st.doc, Block("behavior", sec, st.y, behaviors[k])),
             y |-> st.y + behaviors[k] + 4 * Pt],
            behaviors, k + 1, sec)

\* drawSection; sec is the section's number within its tab (for the record
\* of what was drawn only).  Returns [doc, y]: y is the value it returns.
\* The chips of the badges row take horizontal space only and are left out.
drawSection(d, tabs, activeIndex, margin, section, sec, dMap, pMap) ==
    LET r0 == ensureSpace(d, margin + mm(30), mm(40), margin, activeIndex,
                          tabs, dMap, pMap)
        sy == r0.y
        d1 == Draw(r0.doc, Block("title", sec, sy + cardPad, 0))
        by == sy + cardPad + mm(8)
        c0 == by + mm(10)
        st1 == IF section.description # 0
               THEN [doc |-> Draw(d1, Block("description", sec, c0, section.description)),
                     y |-> c0 + section.description + 8 * Pt]
               ELSE [doc |-> d1, y |-> c0]
        st2 == IF Len(section.behaviors) > 0
               THEN LET b == drawBehaviors(
                               [doc |-> Draw(st1.doc, Block("behaviorsHead", sec, st1.y, 0)),
                                y |-> st1.y + 16 * Pt],
                               section.behaviors, 1, sec)
                    IN [doc |-> b.doc, y |-> b.y + 6 * Pt]
               ELSE st1
        st3 == drawComments(st2, section.comments, 1, sec, margin, activeIndex,
                            tabs, dMap, pMap)
        cardH == st3.y - sy + cardPad
    IN [doc |-> Draw(st3.doc, Block("card", sec, sy, cardH)),
        y |-> sy + cardH + 14 * Pt]

\* The outline entries of the tabs in keep, in tab order, each at page pg[i]
RECURSIVE OutlineItems(_, _, _, _)
OutlineItems(tabs, keep, pg, i) ==
    IF i = 0 THEN << >>
    ELSE IF i \in keep
         THEN Append(OutlineItems(tabs, keep, pg, i - 1),
                     [tab |-> i, label |-> tabs[i].label, page |-> pg[i]])
         ELSE OutlineItems(tabs, keep, pg, i - 1)

\* addOutlines taking the tab's number for its page
addOutlinesByIndex(d, tabs, pMap, hasOutline, rejected) ==
    IF ~hasOutline THEN [d EXCEPT !.refused = 1..Len(tabs)]
    ELSE [d EXCEPT !.outline = OutlineItems(tabs, (1..Len(tabs)) \ rejected,
                                            [i \in 1..Len(tabs) |-> i], Len(tabs)),
                   !.refused = rejected]

\* addOutlines: one root.addItem(t.label, {page: pageMap[idx]}) per tab.
\* hasOutline is doc.outline being there, rejected the tabs whose addItem
\* throws; d.refused remembers the tabs that got no entry for that reason.
addOutlines(d, tabs, pMap, hasOutline, rejected) ==
    IF ~hasOutline THEN [d EXCEPT !.refused = 1..Len(tabs)]
    ELSE [d EXCEPT !.outline = OutlineItems(tabs, (1..Len(tabs)) \ rejected,
                                            pMap, Len(tabs)),
                   !.refused = rejected]

\* ------------------------------------------------------------------------
\* generate(doc, data), step by step
\* ------------------------------------------------------------------------

Meta == [reportTitle |-> "Assessment Stage"]

Init ==
    /\ data \in [meta : {Meta}, tabs : Docs]
    /\ doc \in {NewDocument(ok) : ok \in BOOLEAN}
    /\ pc = "tab"
    /\ idx = 1
    /\ sIdx = 0
    /\ y = 0
    /\ destMap = << >>
    /\ pageMap = << >>
    /\ html = None
    /\ arg = None
    /\ res = None
    /\ proc = None

\* destName = `tab-${idx}-${slug of id or label}`
DestName(tabs, i) == <<"tab", i - 1, tabs[i].label>>

\* The start of one tabs.forEach iteration: the page, pageMap, the named
\* destination (destOK: the backend accepts it), the scaffold, let y.
BeginTab ==
    /\ pc = "tab"
    /\ idx <= Len(data.tabs)
    /\ \E destOK \in BOOLEAN :
         LET d0 == IF idx = 1
                   THEN [doc EXCEPT !.pages[1].tab = 1]
                   ELSE addPage(doc, idx)
             pm == pageMap @@ (idx :> PageNumber(d0))
             name == DestName(data.tabs, idx)
             d1 == IF destOK
                   THEN [d0 EXCEPT !.dests = @ @@ (name :> PageNumber(d0))]
                   ELSE d0
             dm == IF destOK THEN destMap @@ (idx :> name) ELSE destMap
         IN /\ pageMap' = pm
            /\ destMap' = dm
            /\ doc' = drawPageScaffold(d1, data.meta, data.tabs, idx, Margin, dm, pm)
    /\ y' = Margin + mm(30)
    /\ sIdx' = 1
    /\ pc' = "sections"
    /\ UNCHANGED <<data, idx, html, arg, res, proc>>

\* One step of tab.sections.forEach
DrawSection ==
    /\ pc = "sections"
    /\ sIdx <= Len(data.tabs[idx].sections)
    /\ LET r == drawSection(doc, data.tabs, idx, Margin,
                            data.tabs[idx].sections[sIdx], sIdx, destMap, pageMap)
       IN /\ doc' = r.doc
          /\ y' = r.y
    /\ sIdx' = sIdx + 1
    /\ UNCHANGED <<data, pc, idx, destMap, pageMap, html, arg, res, proc>>

\* The end of one tabs.forEach iteration
Footer ==
    /\ pc = "sections"
    /\ sIdx > Len(data.tabs[idx].sections)
    /\ doc' = footer(doc, Margin)
    /\ idx' = idx + 1
    /\ pc' = "tab"
    /\ UNCHANGED <<data, sIdx, y, destMap, pageMap, html, arg, res, proc>>

\* After the loop: addOutlines, then generate returns
AddOutlines ==
    /\ pc = "tab"
    /\ idx > Len(data.tabs)
    /\ \E hasOutline \in BOOLEAN :
       \E rejected \in SUBSET (1..Len(data.tabs)) :
         /\ (~hasOutline => rejected = {})
         /\ doc' = addOutlines(doc, data.tabs, pageMap, hasOutline, rejected)
    /\ pc' = "done"
    /\ UNCHANGED <<data, idx, sIdx, y, destMap, pageMap, html, arg, res, proc>>

Next == BeginTab \/ DrawSection \/ Footer \/ AddOutlines

Spec == Init /\ [][Next]_vars

\* ------------------------------------------------------------------------
\* generate-hrms-puppeteer.js: values and esc
\* ------------------------------------------------------------------------
\* A JavaScript value of the input is [t |-> "undefined"], a string
\* [t |-> "string", s |-> <<characters>>], a number [t |-> "number", n |-> n],
\* an array [t |-> "array", items |-> <<...>>] or an object (a record with
\* t = "object").  A string is a sequence of atoms: a character of the input
\* is a one-character atom, a piece of the template's own text is one atom.

Undef == [t |-> "undefined"]

Str(chars) == [t |-> "string", s |-> chars]

Num(n) == [t |-> "number", n |-> n]

Arr(items) == [t |-> "array", items |-> items]

\* JavaScript truthiness of a value: '' and 0 and undefined are falsy
Truthy(v) ==
    CASE v.t = "string" -> Len(v.s) > 0
      [] v.t = "number" -> v.n # 0
      [] v.t = "undefined" -> FALSE
      [] OTHER -> TRUE

DigitChars == <<"0", "1", "2", "3", "4", "5", "6", "7", "8", "9">>

RECURSIVE Decimal(_)
Decimal(n) ==
    IF n < 10 THEN <<DigitChars[n + 1]>>
    ELSE Append(Decimal(n \div 10), DigitChars[(n % 10) + 1])

\* String(v) of a string or a non-negative integer
StringOf(v) ==
    CASE v.t = "string" -> v.s
      [] v.t = "number" -> Decimal(v.n)
      [] OTHER -> <<"undefined">>

\* s.replace(/c/g, by): every atom c of s replaced by the atoms of by
RECURSIVE ReplaceAll(_, _, _)
ReplaceAll(s, c, by) ==
    IF Len(s) = 0 THEN << >>
    ELSE (IF Head(s) = c THEN by ELSE <<Head(s)>>) \o ReplaceAll(Tail(s), c, by)

AmpEntity == <<"&", "a", "m", "p", ";">>

LtEntity == <<"&", "l", "t", ";">>

GtEntity == <<"&", "g", "t", ";">>

\* String(s || '').replace(/&/g,'&amp;').replace(/</g,'&lt;').replace(/>/g,'&gt;')
esc(v) ==
    LET s0 == IF Truthy(v) THEN StringOf(v) ELSE << >>
    IN ReplaceAll(ReplaceAll(ReplaceAll(s0, "&", AmpEntity), "<", LtEntity),
                  ">", GtEntity)

\* --- the values esc is tried on
MaxStrLen == 3

MaxNum == 12

EscChars == {"a", "&", "<", ">", ";"}

ScriptBody == <<"<", "s", "c", "r", "i", "p", "t", ">", "&",
                "<", "/", "s", "c", "r", "i", "p", "t", ">">>

EscInputs ==
    {Str(s) : s \in UNION {[1..n -> EscChars] : n \in 0..MaxStrLen}}
    \cup {Str(ScriptBody)}
    \cup {Num(n) : n \in 0..MaxNum}
    \cup {Undef}

InitEsc ==
    /\ arg \in EscInputs
    /\ res = None
    /\ data = None
    /\ html = None
    /\ proc = None
    /\ doc = None /\ pc = "esc" /\ idx = 0 /\ sIdx = 0 /\ y = 0
    /\ destMap = << >> /\ pageMap = << >>

CallEsc ==
    /\ pc = "esc"
    /\ res.t = "none"
    /\ res' = Str(esc(arg))
    /\ UNCHANGED <<data, html, arg, proc, layoutVars>>

NextEsc == CallEsc

SpecEsc == InitEsc /\ [][NextEsc]_vars

\* Replacing the three entities back, reading from the left
HasPrefix(s, pre) == Len(s) >= Len(pre) /\ SubSeq(s, 1, Len(pre)) = pre

RECURSIVE Unescape(_)
Unescape(s) ==
    IF Len(s) = 0 THEN << >>
    ELSE IF HasPrefix(s, AmpEntity)
         THEN <<"&">> \o Unescape(SubSeq(s, Len(AmpEntity) + 1, Len(s)))
    ELSE IF HasPrefix(s, LtEntity)
         THEN <<"<">> \o Unescape(SubSeq(s, Len(LtEntity) + 1, Len(s)))
    ELSE IF HasPrefix(s, GtEntity)
         THEN <<">">> \o Unescape(SubSeq(s, Len(GtEntity) + 1, Len(s)))
    ELSE <<Head(s)>> \o Unescape(Tail(s))

\* No '<', no '>', and every '&' begins one of the three entities
Escaped(s) ==
    \A i \in 1..Len(s) :
        /\ s[i] \notin {"<", ">"}
        /\ s[i] = "&" =>
              LET rest == SubSeq(s, i, Len(s))
              IN HasPrefix(rest, AmpEntity) \/ HasPrefix(rest, LtEntity)
                 \/ HasPrefix(rest, GtEntity)

\* The text of a value: what String() gives, nothing for undefined
TextOf(v) == IF v.t = "undefined" THEN << >> ELSE StringOf(v)

\* ------------------------------------------------------------------------
\* C9.  For every input value s, esc(s) holds no '<' and no '>' and no '&'
\* other than the first character of an entity, and replacing the three
\* entities back gives the text of s.
\* ------------------------------------------------------------------------
C9_EscRoundTrip ==
    res.t = "string" => (Escaped(res.s) /\ Unescape(res.s) = TextOf(arg))

\* ------------------------------------------------------------------------
\* generate-hrms-puppeteer.js: buildHTML
\* ------------------------------------------------------------------------
\* The markup is kept as a tree of elements [tag, cls, attrs, text, kids]:
\* cls is the value of the class attribute, attrs the other attributes, text
\* the element's own text, each a sequence of atoms.  The bullet and star
\* characters of the template are written " - ", "* " and "star".

El(tag, cls, attrs, text, kids) ==
    [tag |-> tag, cls |-> cls, attrs |-> attrs, text |-> text, kids |-> kids]

Attr(name, value) == [name |-> name, value |-> value]

RECURSIVE Concat(_)
Concat(ss) == IF Len(ss) = 0 THEN << >> ELSE Head(ss) \o Concat(Tail(ss))

\* a || b
Or(a, b) == IF Truthy(a) THEN a ELSE b

\* typeof v !== 'undefined'
Defined(v) == v.t # "undefined"

\* obj?.name
Field(obj, name) == IF obj.t = "object" THEN obj[name] ELSE Undef

\* Array.isArray(v) ? v : []   and   (v || [])
Items(v) == IF v.t = "array" THEN v.items ELSE << >>

\* Number(v).toFixed(1)
Fixed1(v) ==
    IF v.t = "number" THEN Str(Decimal(v.n) \o <<".", "0">>) ELSE Str(<<"NaN">>)

\* String.prototype.toLowerCase on the characters of the model
LowerChar(c) == IF c = "H" THEN "h" ELSE c

toLowerCase(chars) == [i \in 1..Len(chars) |-> LowerChar(chars[i])]

\* list.join(sep)
RECURSIVE Join(_, _)
Join(list, sep) ==
    IF Len(list) = 0 THEN << >>
    ELSE IF Len(list) = 1 THEN list[1]
    ELSE list[1] \o <<sep>> \o Join(Tail(list), sep)

\* the star chip: <span class="chip rate"><span class="star">*</span> n.n</span>
RateChip(v) ==
    El("span", <<"chip rate">>, << >>, <<" ">> \o esc(Fixed1(v)),
       <<El("span", <<"star">>, << >>, <<"star">>, << >>)>>)

Span(cls, text) == El("span", <<cls>>, << >>, text, << >>)

\* tabBar with every pill linking to the active tab's anchor
tabBarHrefActive(tabs, activeIdx) ==
    El("nav", <<"tabs">>, << >>, << >>,
       [i \in 1..Len(tabs) |->
          El("a", <<"tab", " ">> \o (IF i = activeIdx THEN <<"active">> ELSE << >>),
             <<Attr("href", <<"#tab-">> \o Decimal(activeIdx - 1))>>,
             esc(tabs[i].label), << >>)])

\* tabBar(activeIdx): one <a class="tab [active]" href="#tab-i"> per tab
tabBar(tabs, activeIdx) ==
    El("nav", <<"tabs">>, << >>, << >>,
       [i \in 1..Len(tabs) |->
          El("a", <<"tab", " ">> \o (IF i = activeIdx THEN <<"active">> ELSE << >>),
             <<Attr("href", <<"#tab-">> \o Decimal(i - 1))>>,
             esc(tabs[i].label), << >>)])

commentHTML(c) ==
    El("div", <<"comment">>, << >>, << >>,
       << El("div", <<"hdr">>, << >>, << >>,
            << El("div", <<"left">>, << >>, << >>,
                  (IF Truthy(c.avatar)
                   THEN <<El("img", <<"avatar">>, <<Attr("src", esc(c.avatar))>>, << >>, << >>)>>
                   ELSE << >>)
                  \o <<El("div", << >>, << >>,
                          esc(Or(c.author, Str(<<"User">>))) \o <<" - ">>
                          \o esc(Or(c.role, Str(<< >>))) \o <<" - ">>
                          \o esc(Or(Or(c.stepName, c.step), Str(<< >>))),
                          << >>)>>),
               El("div", <<"meta">>, << >>, << >>,
                  (IF Defined(Field(c.chips, "progress"))
                   THEN <<Span("pill", <<"Progress: ">> \o esc(c.chips.progress))>> ELSE << >>)
                  \o (IF Defined(Field(c.chips, "updatedValue"))
                      THEN <<Span("pill", <<"Updated Value: ">> \o esc(c.chips.updatedValue))>>
                      ELSE << >>)
                  \o (IF Truthy(Field(c.chips, "status"))
                      THEN <<Span("pill", <<"Status: ">> \o esc(c.chips.status))>> ELSE << >>)
                  \o (IF Defined(c.rating) THEN <<RateChip(c.rating)>> ELSE << >>)) >>),
          El("div", <<"txt">>, << >>, esc(Or(c.text, Str(<< >>))), << >>) >>)

sectionHTML(s) ==
    El("section", <<"card">>, << >>, << >>,
       << El("h3", << >>, << >>, esc(s.title), << >>),
          El("div", <<"row">>, << >>, << >>,
             (IF Defined(s.weightage)
              THEN <<Span("chip info", <<"Weightage: ">> \o esc(s.weightage))>> ELSE << >>)
             \o (IF Defined(s.expectedRating)
                 THEN <<Span("chip ok", <<"Expected: ">> \o esc(s.expectedRating))>> ELSE << >>)
             \o (IF Defined(s.rating) THEN <<RateChip(s.rating)>> ELSE << >>)
             \o [i \in 1..Len(Items(s.labels)) |->
                    Span("pill status", esc(Items(s.labels)[i]))]) >>
       \o (IF Truthy(s.description)
           THEN <<El("p", <<"para">>, << >>, esc(s.description), << >>)>> ELSE << >>)
       \o (IF Len(Items(s.behaviors)) > 0
           THEN <<El("div", <<"para">>, <<Attr("style", <<"color:#111827">>)>>, << >>,
                     <<El("strong", << >>, << >>, <<"Behaviors">>, << >>)>>)>>
                \o [i \in 1..Len(s.behaviors.items) |->
                      El("p", <<"para">>, << >>, <<"* ">> \o esc(s.behaviors.items[i]), << >>)]
           ELSE << >>)
       \o [i \in 1..Len(Items(s.comments)) |-> commentHTML(Items(s.comments)[i])])

reviewHTML(title, text, rating, label) ==
    El("section", <<"review">>, << >>, << >>,
       << El("div", <<"row">>,
             <<Attr("style", <<"justify-content:space-between; align-items:center;">>)>>,
             << >>,
             << El("div", << >>, <<Attr("style", <<"font-weight:700; color:#111827;">>)>>,
                   esc(Or(title, Str(<<"Section Review">>))), << >>),
                El("div", << >>, << >>, << >>,
                   (IF Defined(rating) THEN <<RateChip(rating)>> ELSE << >>)
                   \o (IF Truthy(label) THEN <<Span("pill status", esc(label))>> ELSE << >>)) >>) >>
       \o (IF Truthy(text) THEN <<El("p", <<"para">>, << >>, esc(text), << >>)>> ELSE << >>))

endMarker(text) ==
    El("div", <<"section-end">>, << >>, <<"* ">> \o esc(text) \o <<" *">>, << >>)

\* Math.max(0, Math.min(100, Number(node.progressPercent || 0)))
ClampPercent(v) ==
    LET n == IF Truthy(v) /\ v.t = "number" THEN v.n ELSE 0
    IN Max(0, IF n <= 100 THEN n ELSE 100)

\* `--deg:${deg}deg` with deg = percent * 3.6
DegStyle(v) ==
    LET t == ClampPercent(v) * 36
    IN <<"--deg:">> \o Decimal(t \div 10)
       \o (IF t % 10 = 0 THEN << >> ELSE <<".">> \o Decimal(t % 10)) \o <<"deg">>

\* nodeHTML(node, level, indexPath); the children are rendered one level
\* deeper with their 1-based position appended to indexPath.
RECURSIVE nodeHTML(_, _, _)
nodeHTML(node, level, indexPath) ==
    LET idxLabel == IF Len(indexPath) > 0 THEN indexPath[Len(indexPath)] ELSE 1
        kidsOf == Items(node.children)
    IN
    El("div", <<"node">>, << >>, << >>,
       << El("div", <<"node-head">>, << >>, << >>,
             << El("div", <<"node-left">>, << >>, << >>,
                   << El("div", <<"node-title">>, << >>, esc(Or(node.title, Str(<< >>))),
                         <<Span("node-index", esc(Num(idxLabel)))>>),
                      El("div", <<"node-sub">>, << >>, << >>,
                         (IF Truthy(node.date) THEN <<Span("pill", esc(node.date))>> ELSE << >>)
                         \o (IF Truthy(node.kpi)
                             THEN <<Span("pill", <<"KPI: ">> \o esc(node.kpi))>> ELSE << >>)
                         \o (IF Truthy(node.categoryName)
                             THEN <<Span("pill", esc(node.categoryName))>> ELSE << >>)
                         \o (IF Truthy(node.categoryType)
                             THEN <<Span("pill", esc(node.categoryType))>> ELSE << >>)
                         \o (IF Defined(node.weightage)
                             THEN <<Span("pill", <<"Weightage: ">> \o esc(node.weightage))>>
                             ELSE << >>)
                         \o (IF Truthy(node.priority)
                             THEN <<El("span", <<"pill", " ">> \o toLowerCase(node.priority.s),
                                       << >>, esc(node.priority), << >>)>>
                             ELSE << >>)
                         \o (IF Truthy(node.presentStatus)
                             THEN <<Span("pill status", esc(node.presentStatus))>> ELSE << >>)) >>),
                El("div", <<"node-right">>, << >>, << >>,
                   (IF Defined(node.rating) THEN <<RateChip(node.rating)>> ELSE << >>)
                   \o <<El("div", <<"donut">>, <<Attr("style", DegStyle(node.progressPercent))>>,
                           << >>,
                           <<El("span", << >>, << >>,
                                esc(Str(StringOf(Or(node.progressPercent, Num(0)))))
                                \o <<"%">>, << >>)>>)>>) >>) >>
       \o (IF Truthy(node.description)
           THEN <<El("p", <<"para">>, << >>, esc(node.description), << >>)>> ELSE << >>)
       \o [i \in 1..Len(Items(node.comments)) |-> commentHTML(Items(node.comments)[i])]
       \o (IF Len(kidsOf) > 0
           THEN <<El("div", <<"node-children">>, << >>, << >>,
                     [i \in 1..Len(kidsOf) |->
                        nodeHTML(kidsOf[i], level + 1, Append(indexPath, i))])>>
           ELSE << >>))

\* hierarchyHTML calling nodeHTML without the root's position (indexPath = [])
hierarchyHTMLNoIndex(hier) ==
    IF ~Truthy(hier) \/ Field(hier, "nodes").t # "array" THEN << >>
    ELSE [i \in 1..Len(hier.nodes.items) |-> nodeHTML(hier.nodes.items[i], 1, << >>)]

hierarchyHTML(hier) ==
    IF ~Truthy(hier) \/ Field(hier, "nodes").t # "array" THEN << >>
    ELSE [i \in 1..Len(hier.nodes.items) |-> nodeHTML(hier.nodes.items[i], 1, <<i>>)]

ratingPanel(rd) ==
    IF ~Truthy(rd) THEN << >>
    ELSE
    <<El("section", <<"panel">>, << >>, << >>,
        <<El("div", <<"title">>, << >>, <<"Rating Details">>, << >>)>>
        \o (IF Truthy(rd.description)
            THEN <<El("p", <<"para">>, <<Attr("style", <<"margin-bottom:6px;">>)>>,
                      esc(rd.description), << >>)>>
            ELSE << >>)
        \o <<El("div", <<"row">>, << >>, << >>,
              (IF Defined(rd.weightage)
               THEN <<Span("chip info", <<"Weightage: ">> \o esc(rd.weightage))>> ELSE << >>)
              \o (IF Defined(rd.score)
                  THEN <<Span("pill", <<"Score: ">> \o esc(rd.score))>> ELSE << >>)
              \o (IF Truthy(rd.label)
                  THEN <<Span("pill status", <<"Label: ">> \o esc(rd.label))>> ELSE << >>)
              \o (IF Defined(rd.manualRating)
                  THEN <<Span("pill", <<"Manual Rating: ">> \o esc(rd.manualRating))>>
                  ELSE << >>)
              \o (IF Defined(rd.mappedScore)
                  THEN <<Span("pill", <<"Mapped Score: ">> \o esc(rd.mappedScore))>>
                  ELSE << >>)
              \o (IF Truthy(rd.mappedLabel)
                  THEN <<Span("pill status", <<"Mapped Label: ">> \o esc(rd.mappedLabel))>>
                  ELSE << >>)
              \o (IF Defined(rd.rating) THEN <<RateChip(rd.rating)>> ELSE << >>))>>)>>

\* One element of `pages`: <div class="page" id="tab-idx"> ... </div>
pageHTML(d, i) ==
    LET meta == d.meta
        tabs == d.tabs
        tab  == tabs[i]
        reportTitle == esc(Or(meta.reportTitle, Str(<<"Assessment Stage">>)))
        emp  == meta.employee
        present == [k \in 1..3 |-> Field(emp, <<"name", "code", "title">>[k])]
        empInfo == Join([k \in 1..Len(SelectSeq(present, Truthy)) |->
                            esc(SelectSeq(present, Truthy)[k])], " - ")
        secs == Items(tab.sections)
    IN
    El("div", <<"page">>, <<Attr("id", <<"tab-">> \o Decimal(i - 1))>>, << >>,
       << El("div", <<"header">>, << >>, << >>,
             << El("div", << >>,
                   <<Attr("style", <<"display:flex; align-items:center; justify-content:space-between; gap:10px;">>)>>,
                   << >>,
                   << El("div", << >>, << >>, << >>,
                         << El("h1", << >>, << >>, reportTitle, << >>),
                            El("div", <<"muted">>, << >>, empInfo, << >>) >>) >>
                   \o (IF Truthy(Field(emp, "avatar"))
                       THEN <<El("img", <<"avatar">>,
                                 <<Attr("src", esc(emp.avatar)),
                                   Attr("style", <<"width:28px;height:28px;">>)>>,
                                 << >>, << >>)>>
                       ELSE << >>)),
                El("div", <<"divider">>, << >>, << >>, << >>),
                tabBar(tabs, i) >>) >>
       \o (IF i = 1 THEN ratingPanel(meta.ratingDetails) ELSE << >>)
       \o << El("div", <<"content">>, << >>, << >>,
                [k \in 1..Len(secs) |-> sectionHTML(secs[k])]
                \o (IF Truthy(tab.review)
                    THEN <<reviewHTML(tab.review.title, tab.review.text,
                                      tab.review.rating, tab.review.label)>>
                    ELSE << >>)
                \o (IF Truthy(tab.reviewEndMarker)
                    THEN <<endMarker(tab.reviewEndMarker)>> ELSE << >>)
                \o (IF Truthy(tab.hierarchy) THEN hierarchyHTML(tab.hierarchy) ELSE << >>)
                \o (IF Truthy(tab.hierarchyEndMarker)
                    THEN <<endMarker(tab.hierarchyEndMarker)>> ELSE << >>)
                \o (IF (~Truthy(tab.sections) \/ Len(secs) = 0) /\ ~Truthy(tab.hierarchy)
                    THEN <<El("div", <<"muted">>, << >>,
                              <<"No content available for this tab.">>, << >>)>>
                    ELSE << >>)),
             El("div", <<"footer">>, << >>,
                <<"Tab ">> \o Decimal(i) \o <<" / ">> \o Decimal(Len(tabs)), << >>) >>)

\* buildHTML(data): <html><head>...<title>reportTitle</title>...</head>
\* <body>pages</body></html>
buildHTML(d) ==
    [t |-> "html",
     root |->
       El("html", << >>, << >>, << >>,
          << El("head", << >>, << >>, << >>,
                << El("meta", << >>, <<Attr("charset", <<"utf-8">>)>>, << >>, << >>),
                   El("title", << >>, << >>,
                      esc(Or(d.meta.reportTitle, Str(<<"Assessment Stage">>))), << >>),
                   El("style", << >>, << >>, <<"css">>, << >>) >>),
             El("body", << >>, << >>, << >>,
                [i \in 1..Len(d.tabs) |-> pageHTML(d, i)]) >>)]

\* ------------------------------------------------------------------------
\* The documents buildHTML is tried on, and a run of the Template Builder
\* ------------------------------------------------------------------------

\* At most MaxHtmlTabs tabs
MaxHtmlTabs == 3

Plain == <<"H", "i">>

Hostile == <<"<", "&", ">">>

\* What the free-text fields of one entity hold: nothing, plain text or
\* text made of the three markup characters
TextFills == {Undef, Str(Plain), Str(Hostile)}

NumFor(f) == IF Defined(f) THEN Num(5) ELSE Undef

ListFor(f, items) == IF Defined(f) THEN Arr(items) ELSE Undef

CommentOf(f) ==
    [t |-> "object", avatar |-> f, author |-> f, role |-> f, stepName |-> Undef,
     step |-> f,
     chips |-> IF Defined(f)
               THEN [t |-> "object", progress |-> Num(50), updatedValue |-> f, status |-> f]
               ELSE Undef,
     rating |-> NumFor(f), text |-> f]

SectionOf(f) ==
    [t |-> "object", title |-> f, weightage |-> NumFor(f), expectedRating |-> NumFor(f),
     rating |-> NumFor(f), labels |-> ListFor(f, <<f>>), description |-> f,
     behaviors |-> ListFor(f, <<f>>),
     comments |-> ListFor(f, <<CommentOf(f), CommentOf(Undef)>>)]

NodeOf(f, kids) ==
    [t |-> "object", progressPercent |-> NumFor(f), title |-> f, date |-> f, kpi |-> f,
     categoryName |-> f, categoryType |-> f, weightage |-> NumFor(f), priority |-> f,
     presentStatus |-> f, rating |-> NumFor(f), description |-> f,
     comments |-> ListFor(f, <<CommentOf(f)>>),
     children |-> IF Len(kids) = 0 THEN Undef ELSE Arr(kids)]

\* Two roots; the first has two children and a chain down to depth 4
HierarchyOf(f) ==
    [t |-> "object",
     nodes |-> Arr(<< NodeOf(f, << NodeOf(f, <<NodeOf(f, <<NodeOf(f, << >>)>>)>>),
                                   NodeOf(Undef, << >>) >>),
                      NodeOf(f, << >>) >>)]

ReviewOf(f) ==
    IF Defined(f)
    THEN [t |-> "object", title |-> f, text |-> f, rating |-> NumFor(f), label |-> f]
    ELSE Undef

TabKinds == {"none", "emptyList", "sections", "hierarchy", "both"}

\* The i-th tab of a document: its label is the fill text and its number
TabOf(kind, f, i) ==
    [t |-> "object", label |-> IF Defined(f) THEN Str(f.s \o Decimal(i)) ELSE Undef,
     sections |-> CASE kind = "none" -> Undef
                    [] kind = "hierarchy" -> Undef
                    [] kind = "emptyList" -> Arr(<< >>)
                    [] OTHER -> Arr(<<SectionOf(f)>>),
     review |-> IF kind \in {"sections", "both"} THEN ReviewOf(f) ELSE Undef,
     reviewEndMarker |-> IF kind \in {"sections", "both"} THEN f ELSE Undef,
     hierarchy |-> IF kind \in {"hierarchy", "both"} THEN HierarchyOf(f) ELSE Undef,
     hierarchyEndMarker |-> IF kind \in {"hierarchy", "both"} THEN f ELSE Undef]

MetaOf(f) ==
    [reportTitle |-> f,
     employee |-> IF Defined(f)
                  THEN [t |-> "object", name |-> f, code |-> f, title |-> f, avatar |-> f]
                  ELSE Undef,
     ratingDetails |->
        IF Defined(f)
        THEN [t |-> "object", description |-> f, weightage |-> NumFor(f), score |-> NumFor(f),
              label |-> f, manualRating |-> NumFor(f), mappedScore |-> NumFor(f),
              mappedLabel |-> f, rating |-> NumFor(f)]
        ELSE Undef]

\* One fill for the texts of a document, one kind per tab
HtmlDocs ==
    {[meta |-> MetaOf(f), tabs |-> [i \in 1..Len(kinds) |-> TabOf(kinds[i], f, i)]] :
        f \in TextFills,
        kinds \in UNION {[1..n -> TabKinds] : n \in 0..MaxHtmlTabs}}

InitHTML ==
    /\ data \in HtmlDocs
    /\ html = None
    /\ arg = None
    /\ res = None
    /\ proc = None
    /\ doc = None /\ pc = "html" /\ idx = 0 /\ sIdx = 0 /\ y = 0
    /\ destMap = << >> /\ pageMap = << >>

\* buildHTML storing the default title in the document it was given
\* (meta.reportTitle = meta.reportTitle || 'Assessment Stage')
BuildHTMLStoringDefault ==
    /\ pc = "html"
    /\ html.t = "none"
    /\ html' = buildHTML(data)
    /\ data' = [data EXCEPT !.meta.reportTitle = Or(@, Str(<<"Assessment Stage">>))]
    /\ UNCHANGED <<arg, res, proc, layoutVars>>

\* const html = buildHTML(data)
BuildHTML ==
    /\ pc = "html"
    /\ html.t = "none"
    /\ html' = buildHTML(data)
    /\ UNCHANGED <<data, arg, res, proc, layoutVars>>

NextHTML == BuildHTML

SpecHTML == InitHTML /\ [][NextHTML]_vars

\* --- vocabulary of the markup claims

\* All elements of a tree, in document order
RECURSIVE Flatten(_)
Flatten(e) == <<e>> \o Concat([k \in 1..Len(e.kids) |-> Flatten(e.kids[k])])

AttrValues(e, name) ==
    LET hit == SelectSeq(e.attrs, LAMBDA a : a.name = name)
    IN [k \in 1..Len(hit) |-> hit[k].value]

\* The id an internal link "#..." leads to
TargetId(href) ==
    IF Len(href) > 0 /\ Head(href) = "#tab-" THEN <<"tab-">> \o Tail(href) ELSE href

\* The page containers: the children of <body>
PageEls == html.root.kids[2].kids

NavsOf(page) == SelectSeq(Flatten(page), LAMBDA e : e.tag = "nav")

\* ------------------------------------------------------------------------
\* C8.  In the markup buildHTML returns, no element's text and no attribute
\* value (class included) holds a '<', a '>' or an '&' that is not the
\* start of an entity: every text taken from the input went through esc.
\* ------------------------------------------------------------------------
C8_AllInsertedTextEscaped ==
    html.t = "html" =>
        LET all == Flatten(html.root) IN
        \A k \in 1..Len(all) :
            LET e == all[k] IN
            /\ Escaped(e.text)
            /\ Escaped(e.cls)
            /\ \A a \in 1..Len(e.attrs) : Escaped(e.attrs[a].value)

\* ------------------------------------------------------------------------
\* C10.  The markup holds one page container per Tab, the i-th with id
\* tab-(i-1) and one navigation bar of one pill per Tab in input order;
\* pill j links to #tab-(j-1) and shows Tab j's label, pill i alone is
\* active, and every link target is the id of exactly one element.
\* ------------------------------------------------------------------------
C10_PagesAndAnchors ==
    html.t = "html" =>
        LET all == Flatten(html.root)
            idEls == SelectSeq(all, LAMBDA e : Len(AttrValues(e, "id")) > 0)
            ids == [k \in 1..Len(idEls) |-> AttrValues(idEls[k], "id")[1]]
            Count(id) == Len(SelectSeq(ids, LAMBDA v : v = id))
        IN
        /\ Len(PageEls) = Len(data.tabs)
        /\ \A i \in 1..Len(PageEls) :
              LET page == PageEls[i]
                  navs == NavsOf(page)
              IN /\ page.cls = <<"page">>
                 /\ AttrValues(page, "id") = << <<"tab-">> \o Decimal(i - 1) >>
                 /\ Count(<<"tab-">> \o Decimal(i - 1)) = 1
                 /\ Len(navs) = 1
                 /\ Len(navs[1].kids) = Len(data.tabs)
                 /\ \A j \in 1..Len(navs[1].kids) :
                       LET pill == navs[1].kids[j] IN
                       /\ pill.tag = "a"
                       /\ pill.text = esc(data.tabs[j].label)
                       /\ AttrValues(pill, "href") = << <<"#tab-">> \o Decimal(j - 1) >>
                       /\ (\E c \in 1..Len(pill.cls) : pill.cls[c] = "active") <=> (j = i)
                       /\ Count(TargetId(AttrValues(pill, "href")[1])) = 1

\* Markup built for a document of at least two tabs
C10_Witness == html.t = "html" /\ Len(data.tabs) >= 2

\* ------------------------------------------------------------------------
\* Vocabulary of the layout claims
\* ------------------------------------------------------------------------

\* pageHeight - bottomMargin
Limit == A4_HEIGHT - Margin

PageNos == 1..Len(doc.pages)

TabNos == 1..Len(data.tabs)

PillsOn(p) == doc.pages[p].pills

\* The page a link annotation leads to
LinkPage(l) ==
    IF l.kind = "goTo"
    THEN IF l.target \in DOMAIN doc.dests THEN doc.dests[l.target] ELSE 0
    ELSE IF l.kind = "page" THEN l.target ELSE 0

\* Tab i's scaffold was drawn on page p: a header and a bar whose active pill is i
ScaffoldOf(i, p) ==
    /\ doc.pages[p].header >= 1
    /\ \E k \in 1..Len(PillsOn(p)) : PillsOn(p)[k].idx = i /\ PillsOn(p)[k].active

\* Pages that a page break of ensureSpace started
OverflowPages == {p \in PageNos : \E i \in DOMAIN pageMap :
                     doc.pages[p].tab = i /\ p > pageMap[i]}

RECURSIVE SumSeq(_)
SumSeq(s) == IF Len(s) = 0 THEN 0 ELSE Head(s) + SumSeq(Tail(s))

\* The height of a section's card when nothing breaks the page, by the
\* arithmetic of drawSection: cardH = contentY - y + cardPad
SectionContentHeight(s) ==
    cardPad + mm(8) + mm(10)
    + (IF s.description # 0 THEN s.description + 8 * Pt ELSE 0)
    + (IF Len(s.behaviors) > 0
       THEN 16 * Pt + SumSeq(s.behaviors) + Len(s.behaviors) * 4 * Pt + 6 * Pt
       ELSE 0)
    + SumSeq([k \in 1..Len(s.comments) |-> commentCardH(s.comments[k]) + 10 * Pt])
    + cardPad

\* ------------------------------------------------------------------------
\* C1.  When generate() has finished (and the backend accepts links), on
\* every page the pill of every Tab j carries a link over its own
\* rectangle that leads to Tab j's first page, by named destination or by
\* page number.
\* ------------------------------------------------------------------------
C1_EveryPillLinked ==
    (pc = "done" /\ doc.linkOK) =>
        \A p \in PageNos : \A k \in 1..Len(PillsOn(p)) :
            LET pill == PillsOn(p)[k] IN
            /\ pill.link.kind # "none"
            /\ pill.link.x = pill.x /\ pill.link.y = pill.y
            /\ pill.link.w = pill.w /\ pill.link.h = pill.h
            /\ LinkPage(pill.link) = pageMap[pill.idx]

\* ------------------------------------------------------------------------
\* C2.  When generate() has finished on a document with at least one Tab,
\* every page carries the header block once and the navigation bar once, so
\* that the scaffold draws are as many as the pages.
\* ------------------------------------------------------------------------
C2_ScaffoldOnEveryPage ==
    (pc = "done" /\ Len(data.tabs) >= 1) =>
        \A p \in PageNos :
            /\ doc.pages[p].header = 1
            /\ Len(PillsOn(p)) = Len(data.tabs)

\* ------------------------------------------------------------------------
\* C3.  A step of drawSection for a Section that is not the first of its
\* page, whose content does not fit below the cursor y and would fit on a
\* fresh page, starts a new page before it draws the Section's title.
\* ------------------------------------------------------------------------
C3_BreakBeforeSection ==
    [][ (/\ pc = "sections"
         /\ sIdx' = sIdx + 1
         /\ y > ContentTop
         /\ y + SectionContentHeight(data.tabs[idx].sections[sIdx]) > Limit
         /\ ContentTop + SectionContentHeight(data.tabs[idx].sections[sIdx]) <= Limit)
        => \E p \in (Len(doc.pages) + 1)..Len(doc'.pages) :
             \E b \in 1..Len(doc'.pages[p].blocks) :
                /\ doc'.pages[p].blocks[b].kind = "title"
                /\ doc'.pages[p].blocks[b].sec = sIdx ]_vars

\* ------------------------------------------------------------------------
\* C4.  Every comment card, description paragraph and behavior line that is
\* no taller than the usable page height lies entirely above the bottom
\* margin of the page it is drawn on: top + height <= pageHeight - margin.
\* ------------------------------------------------------------------------
C4_BlocksOnOnePage ==
    \A p \in PageNos : \A b \in 1..Len(doc.pages[p].blocks) :
        LET blk == doc.pages[p].blocks[b] IN
        (blk.kind \in {"comment", "description", "behavior"} /\ blk.h <= Limit - ContentTop)
            => blk.top + blk.h <= Limit

\* ------------------------------------------------------------------------
\* C5.  Every call ensureSpace(y, need) starts a page exactly when
\* y + need > pageHeight - margin; then it returns margin + mm(30), which
\* is not below the old cursor (not greater than y); otherwise it returns y
\* and adds no page.
\* ------------------------------------------------------------------------
C5_EnsureSpace ==
    \A k \in 1..Len(doc.calls) :
        LET c == doc.calls[k] IN
        /\ c.after \in {c.before, c.before + 1}
        /\ (c.after = c.before + 1) <=> (c.y + c.need > A4_HEIGHT - Margin)
        /\ (c.after = c.before + 1) => (c.ret = Margin + mm(30) /\ c.ret <= c.y)
        /\ (c.after = c.before) => c.ret = c.y

\* A call that did not fit: it opened a page and returned the content top
C5_Witness ==
    \E k \in 1..Len(doc.calls) :
        /\ doc.calls[k].y + doc.calls[k].need > A4_HEIGHT - Margin
        /\ doc.calls[k].after = doc.calls[k].before + 1
        /\ doc.calls[k].ret = ContentTop

\* ------------------------------------------------------------------------
\* C6.  When generate() has finished, the outline holds, in Tab order, one
\* entry for every Tab whose addItem the backend accepted and no other
\* entry (one per Tab when it accepted them all, none when the backend has
\* no outline), and the entry of Tab i points at pageMap[i], the first page
\* on which Tab i's scaffold was drawn.
\* ------------------------------------------------------------------------
FirstScaffoldPage(i) ==
    CHOOSE p \in PageNos :
        ScaffoldOf(i, p) /\ \A q \in PageNos : ScaffoldOf(i, q) => p <= q

C6_OutlineOfAcceptedTabs ==
    pc = "done" =>
        /\ \A k \in 1..Len(doc.outline) :
              LET e == doc.outline[k] IN
              /\ e.tab \in TabNos \ doc.refused
              /\ e.label = data.tabs[e.tab].label
              /\ \E p \in PageNos : ScaffoldOf(e.tab, p)
              /\ e.page = FirstScaffoldPage(e.tab)
              /\ e.page = pageMap[e.tab]
              /\ k > 1 => doc.outline[k - 1].tab < e.tab
        /\ \A i \in TabNos \ doc.refused :
              \E k \in 1..Len(doc.outline) : doc.outline[k].tab = i
        /\ doc.refused = {} => Len(doc.outline) = Len(data.tabs)

\* The claim as stated: exactly one entry per Tab, whatever the backend does
C6_OneEntryPerTab ==
    pc = "done" =>
        /\ Len(doc.outline) = Len(data.tabs)
        /\ \A i \in 1..Len(doc.outline) :
              /\ doc.outline[i].tab = i
              /\ doc.outline[i].page = pageMap[i]

\* A finished run in which the first tab overflowed and the second tab's
\* entry points past it
C6_Witness ==
    /\ pc = "done"
    /\ Len(doc.outline) >= 2
    /\ doc.outline[2].tab = 2
    /\ doc.outline[2].page > 2
    /\ doc.refused = {}

\* ------------------------------------------------------------------------
\* C7.  Every page that a Tab owns shows one pill per Tab of the document,
\* in input order from left to right, and exactly the pill of the owning
\* Tab is active: on the Tab's first page and on every page that
\* ensureSpace started while the Tab was drawn.
\* ------------------------------------------------------------------------
C7_NavBarOnEveryPage ==
    \A p \in PageNos :
        doc.pages[p].tab # 0 =>
            /\ Len(PillsOn(p)) = Len(data.tabs)
            /\ \A k \in 1..Len(PillsOn(p)) :
                  /\ PillsOn(p)[k].idx = k
                  /\ PillsOn(p)[k].label = data.tabs[k].label
                  /\ PillsOn(p)[k].active <=> (k = doc.pages[p].tab)
                  /\ k > 1 => PillsOn(p)[k - 1].x < PillsOn(p)[k].x

\* An overflow page of the second tab
C7_Witness ==
    \E p \in OverflowPages : doc.pages[p].tab = 2 /\ Len(PillsOn(p)) >= 2

\* ------------------------------------------------------------------------
\* C11.  When generate() has finished, the pages of a Tab that has no
\* Section carry exactly one placeholder saying that there is no content
\* and no Section card, and the pages of a Tab with a Section carry no
\* placeholder.
\* ------------------------------------------------------------------------
BlocksOfTab(i, kind) ==
    {pb \in UNION {{<<p, b>> : b \in 1..Len(doc.pages[p].blocks)} : p \in PageNos} :
        /\ doc.pages[pb[1]].tab = i
        /\ doc.pages[pb[1]].blocks[pb[2]].kind = kind}

C11_PlaceholderForEmptyTab ==
    pc = "done" =>
        \A i \in TabNos :
            IF Len(data.tabs[i].sections) = 0
            THEN /\ Cardinality(BlocksOfTab(i, "placeholder")) = 1
                 /\ BlocksOfTab(i, "card") = {}
            ELSE BlocksOfTab(i, "placeholder") = {}

\* The placeholder of the Template Builder
IsPlaceholder(e) ==
    e.tag = "div" /\ e.cls = <<"muted">>
    /\ e.text = <<"No content available for this tab.">>

\* C11, for the Template Builder: the container of Tab i holds exactly one
\* placeholder and no Section card when the Tab has no Section and no
\* Hierarchy, and no placeholder otherwise.
C11_TemplatePlaceholder ==
    html.t = "html" =>
        \A i \in 1..Len(PageEls) :
            LET all == Flatten(PageEls[i])
                holders == SelectSeq(all, IsPlaceholder)
                cards == SelectSeq(all, LAMBDA e : e.tag = "section" /\ e.cls = <<"card">>)
                tab == data.tabs[i]
            IN IF Len(Items(tab.sections)) = 0 /\ ~Defined(tab.hierarchy)
               THEN Len(holders) = 1 /\ Len(cards) = 0
               ELSE Len(holders) = 0

\* --- vocabulary of the hierarchy claim

\* The node boxes nested directly in a node box: the children of its
\* children block
ChildrenBlocks(el) == SelectSeq(el.kids, LAMBDA e : e.cls = <<"node-children">>)

NodeKids(el) == IF Len(ChildrenBlocks(el)) = 0 THEN << >> ELSE ChildrenBlocks(el)[1].kids

\* The index badges of a node box's own head
BadgesOf(el) ==
    SelectSeq(Flatten(el.kids[1]), LAMBDA e : e.tag = "span" /\ e.cls = <<"node-index">>)

\* The number of nodes of a subtree of the input
RECURSIVE NodeCount(_)
NodeCount(node) ==
    1 + SumSeq([k \in 1..Len(Items(node.children)) |-> NodeCount(node.children.items[k])])

\* el renders node with the badge n, and its children block renders the
\* children of node, each once, in order, with the badges 1, 2, ...
RECURSIVE RendersNode(_, _, _)
RendersNode(el, node, n) ==
    /\ el.tag = "div" /\ el.cls = <<"node">>
    /\ Len(BadgesOf(el)) = 1
    /\ BadgesOf(el)[1].text = Decimal(n)
    /\ el.kids[1].kids[1].kids[1].text = esc(Or(node.title, Str(<< >>)))
    /\ Len(ChildrenBlocks(el)) = (IF Len(Items(node.children)) > 0 THEN 1 ELSE 0)
    /\ Len(NodeKids(el)) = Len(Items(node.children))
    /\ \A k \in 1..Len(NodeKids(el)) :
          RendersNode(NodeKids(el)[k], node.children.items[k], k)

\* The content block of a page container
ContentOf(page) == SelectSeq(page.kids, LAMBDA e : e.cls = <<"content">>)[1]

RootNodesOf(page) == SelectSeq(ContentOf(page).kids, LAMBDA e : e.cls = <<"node">>)

\* ------------------------------------------------------------------------
\* C12.  In the container of every Tab with a Hierarchy, the node boxes
\* directly in the content are the root nodes in input order with the
\* badges 1, 2, ...; every node box holds, in its children block and nowhere
\* else, one box per child in input order with the badges 1, 2, ... again,
\* at every depth; and the container holds as many node boxes as the
\* Hierarchy has nodes, so that every node is rendered exactly once.
\* ------------------------------------------------------------------------
C12_HierarchyBadges ==
    html.t = "html" =>
        \A i \in 1..Len(PageEls) :
            LET roots == RootNodesOf(PageEls[i])
                nodes == Items(Field(data.tabs[i].hierarchy, "nodes"))
                boxes == SelectSeq(Flatten(PageEls[i]), LAMBDA e : e.cls = <<"node">>)
            IN /\ Len(roots) = Len(nodes)
               /\ \A k \in 1..Len(roots) : RendersNode(roots[k], nodes[k], k)
               /\ Len(boxes) = SumSeq([k \in 1..Len(nodes) |-> NodeCount(nodes[k])])

\* A rendered Hierarchy with a second root, a second child and a box at
\* depth four that carries the badge 1
C12_Witness ==
    /\ html.t = "html"
    /\ \E i \in 1..Len(PageEls) :
          LET roots == RootNodesOf(PageEls[i]) IN
          /\ Len(roots) = 2
          /\ BadgesOf(roots[2])[1].text = <<"2">>
          /\ Len(NodeKids(roots[1])) = 2
          /\ BadgesOf(NodeKids(roots[1])[2])[1].text = <<"2">>
          /\ Len(NodeKids(NodeKids(roots[1])[1])) = 1
          /\ Len(NodeKids(NodeKids(NodeKids(roots[1])[1])[1])) = 1
          /\ BadgesOf(NodeKids(NodeKids(NodeKids(roots[1])[1])[1])[1])[1].text = <<"1">>

\* --- vocabulary of the best-effort claim

\* What a document looks like without its navigation metadata: the pages,
\* what is drawn on each and where, and the ensureSpace calls made
LayoutOf(d) ==
    [pages |-> [p \in 1..Len(d.pages) |->
                  [tab |-> d.pages[p].tab, header |-> d.pages[p].header,
                   footer |-> d.pages[p].footer, blocks |-> d.pages[p].blocks,
                   pills |-> [k \in 1..Len(d.pages[p].pills) |->
                                LET q == d.pages[p].pills[k]
                                IN [idx |-> q.idx, label |-> q.label, active |-> q.active,
                                    x |-> q.x, y |-> q.y, w |-> q.w, h |-> q.h]]]],
     calls |-> d.calls]

\* generate(doc, data) on a backend that rejects nothing, at the point where
\* the iteration of tab i has drawn the scaffold and s of its sections
RECURSIVE AcceptingRun(_, _, _)
AcceptingRun(tabs, i, s) ==
    IF s > 0
    THEN LET prev == AcceptingRun(tabs, i, s - 1)
             r == drawSection(prev.doc, tabs, i, Margin, tabs[i].sections[s], s,
                              prev.destMap, prev.pageMap)
         IN [prev EXCEPT !.doc = r.doc, !.y = r.y]
    ELSE LET before == IF i = 1
                       THEN [doc |-> NewDocument(TRUE), y |-> 0,
                             destMap |-> << >>, pageMap |-> << >>]
                       ELSE LET e == AcceptingRun(tabs, i - 1, Len(tabs[i - 1].sections))
                            IN [e EXCEPT !.doc = footer(e.doc, Margin)]
             d0 == IF i = 1 THEN [before.doc EXCEPT !.pages[1].tab = 1]
                   ELSE addPage(before.doc, i)
             pm == before.pageMap @@ (i :> PageNumber(d0))
             name == DestName(tabs, i)
             dm == before.destMap @@ (i :> name)
             d1 == [d0 EXCEPT !.dests = @ @@ (name :> PageNumber(d0))]
         IN [doc |-> drawPageScaffold(d1, Meta, tabs, i, Margin, dm, pm),
             y |-> Margin + mm(30), destMap |-> dm, pageMap |-> pm]

\* The same run at the point where this run stands
AcceptingHere ==
    IF pc = "sections" THEN AcceptingRun(data.tabs, idx, sIdx - 1)
    ELSE IF idx = 1
         THEN [doc |-> NewDocument(TRUE), y |-> 0, destMap |-> << >>, pageMap |-> << >>]
         ELSE LET e == AcceptingRun(data.tabs, idx - 1, Len(data.tabs[idx - 1].sections))
              IN [e EXCEPT !.doc = footer(e.doc, Margin)]

\* ------------------------------------------------------------------------
\* C13.  Whatever the backend rejects (links, the named destination of any
\* Tab, the outline or any of its entries), generate() is never stuck
\* before its end and every step brings it nearer to the end (a later tab,
\* a later section, or the end), and at every point the pages, what is
\* drawn on each page and where, the cursor y and the recorded first pages
\* are those of the run in which nothing is rejected; and a pill of a Tab
\* whose named destination was rejected, drawn on or after that Tab's first
\* page by a backend that accepts links, carries the page-number jump to
\* the Tab's first page.
\* ------------------------------------------------------------------------
C13_SameLayout ==
    /\ LayoutOf(doc) = LayoutOf(AcceptingHere.doc)
    /\ y = AcceptingHere.y
    /\ pageMap = AcceptingHere.pageMap
    /\ \A p \in PageNos : \A k \in 1..Len(PillsOn(p)) :
          LET pill == PillsOn(p)[k] IN
          (/\ doc.linkOK
           /\ pill.idx \in DOMAIN pageMap
           /\ pill.idx \notin DOMAIN destMap
           /\ p >= pageMap[pill.idx])
          => /\ pill.link.kind = "page"
             /\ pill.link.target = pageMap[pill.idx]

\* Before the end one of the steps of generate() can be taken: the loops
\* stand at a tab, at a section or behind the last one
C13_CanStep ==
    /\ pc \in {"tab", "sections", "done"}
    /\ idx \in 1..(Len(data.tabs) + 1)
    /\ pc = "sections" =>
          (idx <= Len(data.tabs) /\ sIdx \in 1..(Len(data.tabs[idx].sections) + 1))
    /\ pc = "done" => idx = Len(data.tabs) + 1

\* How far generate() has come: finished, else the tab and section reached
C13_Position == <<IF pc = "done" THEN 1 ELSE 0, idx, IF pc = "sections" THEN sIdx ELSE 0>>

C13_Before(a, b) ==
    \/ a[1] < b[1]
    \/ a[1] = b[1] /\ a[2] < b[2]
    \/ a[1] = b[1] /\ a[2] = b[2] /\ a[3] < b[3]

C13_BestEffortNavigation ==
    /\ [](C13_SameLayout /\ C13_CanStep)
    /\ [][C13_Before(C13_Position, C13_Position')]_vars

\* A finished run with an overflow page in which the named destination of
\* the first Tab and an outline entry were rejected
C13_Witness ==
    /\ pc = "done"
    /\ doc.linkOK
    /\ Len(data.tabs) >= 1
    /\ 1 \notin DOMAIN destMap
    /\ doc.refused # {}
    /\ Len(doc.pages) > Len(data.tabs)
    /\ \E p \in PageNos : \E k \in 1..Len(PillsOn(p)) : PillsOn(p)[k].link.kind = "page"

\* --- vocabulary of the page-count claim

\* The page breaks ensureSpace took
Breaks == {k \in 1..Len(doc.calls) : doc.calls[k].after = doc.calls[k].before + 1}

\* The page after the last page of Tab i
EndOfTab(i) == IF i < Len(data.tabs) THEN pageMap[i + 1] ELSE Len(doc.pages) + 1

\* ------------------------------------------------------------------------
\* C14.  When generate() has finished on a document with at least one Tab,
\* the pages are as many as the Tabs plus the page breaks ensureSpace took
\* (one page per Tab when it took none, one page for a one-Tab document);
\* the first Tab starts on page 1, and the pages of Tab i, those started in
\* its iteration and showing its pill as the active one, are exactly the
\* pages from its recorded first page up to the next Tab's first page.
\* ------------------------------------------------------------------------
C14_PageCount ==
    (pc = "done" /\ Len(data.tabs) >= 1) =>
        /\ Len(doc.pages) = Len(data.tabs) + Cardinality(Breaks)
        /\ Breaks = {} => Len(doc.pages) = Len(data.tabs)
        /\ (Breaks = {} /\ Len(data.tabs) = 1) => Len(doc.pages) = 1
        /\ DOMAIN pageMap = TabNos
        /\ pageMap[1] = 1
        /\ \A i \in TabNos :
              /\ pageMap[i] < EndOfTab(i)
              /\ \A p \in PageNos :
                    (pageMap[i] <= p /\ p < EndOfTab(i))
                    <=> (/\ doc.pages[p].tab = i
                         /\ \E k \in 1..Len(PillsOn(p)) :
                               PillsOn(p)[k].idx = i /\ PillsOn(p)[k].active)

\* A finished run of two Tabs in which the first Tab took a page break, so
\* that the second Tab starts on page 3
C14_Witness ==
    /\ pc = "done"
    /\ Len(data.tabs) = 2
    /\ Cardinality(Breaks) = 1
    /\ pageMap[2] = 3
    /\ Len(doc.pages) = 3

\* ------------------------------------------------------------------------
\* parseArgs and main of the two generators
\* ------------------------------------------------------------------------

\* parseArgs: the for loop from args[i] on (i is 1-based here); a flag takes
\* the next argument when that is truthy (there and not ''), and the loop
\* then skips it (args[++i])
RECURSIVE parseLoop(_, _, _)
parseLoop(args, i, out) ==
    IF i > Len(args) THEN out
    ELSE IF args[i] \in {"-i", "--input"} /\ i + 1 <= Len(args) /\ args[i + 1] # ""
         THEN parseLoop(args, i + 2, [out EXCEPT !.input = args[i + 1]])
    ELSE IF args[i] \in {"-o", "--output"} /\ i + 1 <= Len(args) /\ args[i + 1] # ""
         THEN parseLoop(args, i + 2, [out EXCEPT !.output = args[i + 1]])
    ELSE parseLoop(args, i + 1, out)

parseArgs(args) ==
    parseLoop(args, 1, [input |-> "sample-data.json", output |-> "appraisal.pdf"])

\* The steps of main after parseArgs, in program order.  In the PDFKit
\* generator "write" is the output stream writing the file after doc.end(),
\* which ends with the 'finish' event; "log" is the success line.
StepsOf(engine) ==
    IF engine = "pdfkit"
    THEN <<"readFileSync", "JSON.parse", "new PDFDocument", "createWriteStream",
           "pipe", "generate", "end", "write", "log">>
    ELSE <<"readFileSync", "JSON.parse", "buildHTML", "launch", "newPage",
           "setContent", "pdf", "close", "log">>

\* The steps that can fail: a missing file, malformed JSON, a fault while
\* building or drawing, the browser, the export, writing the file.  An
\* output stream reports a failure by its 'error' event, that is within
\* "write".
Fallible(engine) ==
    IF engine = "pdfkit"
    THEN {"readFileSync", "JSON.parse", "new PDFDocument", "generate", "end", "write"}
    ELSE {"readFileSync", "JSON.parse", "buildHTML", "launch", "newPage",
          "setContent", "pdf", "close"}

\* The exit status that ignores the fault
ExitStatusIgnoringFault(engine) == 0

\* The exit status after a fault: process.exit(1) in the catch of the
\* Puppeteer generator, the runtime's status for an uncaught exception or
\* an unhandled 'error' event in the PDFKit generator
ExitStatusOnFault(engine) == 1

Running == 0 - 1

NewProcess(engine) ==
    [engine |-> engine, ran |-> << >>, failed |-> "", stdout |-> << >>,
     stderr |-> 0, exit |-> Running]

\* --- the argument lists main is tried on
MaxArgs == 3

ArgTokens == {"-i", "--input", "-o", "--output", "a.json", "b.pdf", ""}

ArgLists == UNION {[1..n -> ArgTokens] : n \in 0..MaxArgs}

InitMain ==
    /\ arg \in ArgLists
    /\ res = None
    /\ proc \in {NewProcess(e) : e \in {"pdfkit", "puppeteer"}}
    /\ pc = "main"
    /\ data = None /\ html = None
    /\ doc = None /\ idx = 0 /\ sIdx = 0 /\ y = 0
    /\ destMap = << >> /\ pageMap = << >>

\* const { input, output } = parseArgs()
ParseArgs ==
    /\ pc = "main"
    /\ res' = parseArgs(arg)
    /\ pc' = "steps"
    /\ UNCHANGED <<data, html, arg, proc, doc, idx, sIdx, y, destMap, pageMap>>

\* The next step of main completes; the success line names the output path
StepCompletes ==
    /\ pc = "steps"
    /\ proc.exit = Running
    /\ Len(proc.ran) < Len(StepsOf(proc.engine))
    /\ LET step == StepsOf(proc.engine)[Len(proc.ran) + 1]
       IN proc' = [proc EXCEPT
                     !.ran = Append(@, step),
                     !.stdout = IF step = "log"
                                THEN Append(@, <<"PDF generated: ", res.output>>)
                                ELSE @]
    /\ UNCHANGED <<data, html, arg, res, pc, doc, idx, sIdx, y, destMap, pageMap>>

\* The next step of main fails: the error is printed and the process ends
StepFails ==
    /\ pc = "steps"
    /\ proc.exit = Running
    /\ Len(proc.ran) < Len(StepsOf(proc.engine))
    /\ LET step == StepsOf(proc.engine)[Len(proc.ran) + 1]
       IN /\ step \in Fallible(proc.engine)
          /\ proc' = [proc EXCEPT !.failed = step, !.stderr = @ + 1,
                                  !.exit = ExitStatusOnFault(proc.engine)]
    /\ pc' = "exited"
    /\ UNCHANGED <<data, html, arg, res, doc, idx, sIdx, y, destMap, pageMap>>

\* main has run to its end and nothing is pending: the process ends
ExitNormally ==
    /\ pc = "steps"
    /\ proc.exit = Running
    /\ Len(proc.ran) = Len(StepsOf(proc.engine))
    /\ proc' = [proc EXCEPT !.exit = 0]
    /\ pc' = "exited"
    /\ UNCHANGED <<data, html, arg, res, doc, idx, sIdx, y, destMap, pageMap>>

NextMain == ParseArgs \/ StepCompletes \/ StepFails \/ ExitNormally

SpecMain == InitMain /\ [][NextMain]_vars

\* --- vocabulary of the claims about main

\* The steps of main before the success line
WorkOf(engine) == SubSeq(StepsOf(engine), 1, Len(StepsOf(engine)) - 1)

IsPrefix(s, t) == Len(s) <= Len(t) /\ SubSeq(t, 1, Len(s)) = s

\* ------------------------------------------------------------------------
\* C15.  In both generators the steps of main run in program order, each at
\* most once; when a step fails nothing runs after it, the error is
\* printed and the process ends with a non-zero exit status; the line
\* 'PDF generated: <path>' is printed at most once, and only after every
\* other step, the export or the writing of the file included, has
\* completed; and the process ends with status 0 exactly when every step
\* has completed and that line is printed.
\* ------------------------------------------------------------------------
C15_FailureIsFatal ==
    pc \in {"main", "steps", "exited"} =>
        /\ IsPrefix(proc.ran, StepsOf(proc.engine))
        /\ proc.exit \in {Running, 0, 1}
        /\ proc.failed # "" =>
              /\ proc.exit # Running /\ proc.exit # 0
              /\ proc.stderr = 1
              /\ proc.stdout = << >>
              /\ Len(proc.ran) < Len(StepsOf(proc.engine))
              /\ StepsOf(proc.engine)[Len(proc.ran) + 1] = proc.failed
        /\ proc.stdout # << >> =>
              /\ proc.stdout = << <<"PDF generated: ", res.output>> >>
              /\ proc.ran = StepsOf(proc.engine)
              /\ proc.failed = ""
        /\ proc.exit = 0 =>
              /\ proc.failed = ""
              /\ proc.ran = StepsOf(proc.engine)
              /\ Len(proc.stdout) = 1
        /\ (proc.exit # Running /\ proc.exit # 0) => proc.failed # ""
        /\ pc = "exited" <=> proc.exit # Running

\* A run of the PDFKit generator that failed while writing the file, after
\* generate and doc.end() had completed
C15_Witness ==
    /\ pc = "exited"
    /\ proc.engine = "pdfkit"
    /\ proc.failed = "write"
    /\ proc.exit = 1
    /\ proc.ran = SubSeq(StepsOf("pdfkit"), 1, 7)
    /\ proc.stdout = << >>

\* The arguments that follow an occurrence of one of the flags
FollowersOf(args, flags) ==
    {args[i + 1] : i \in {j \in 1..(Len(args) - 1) : args[j] \in flags}}

\* ------------------------------------------------------------------------
\* C18.  For every argument list, the input path parseArgs returns is an
\* argument that follows '-i' or '--input' whenever one of them occurs with
\* an argument after it, and 'sample-data.json' otherwise; the output path
\* is an argument that follows '-o' or '--output' whenever one of them
\* occurs with an argument after it, and 'appraisal.pdf' otherwise,
\* whatever the other flag and the order of the two.
\* ------------------------------------------------------------------------
C18_FlagsIndependent ==
    pc \in {"steps", "exited"} =>
        /\ IF FollowersOf(arg, {"-i", "--input"}) = {}
           THEN res.input = "sample-data.json"
           ELSE res.input \in FollowersOf(arg, {"-i", "--input"})
        /\ IF FollowersOf(arg, {"-o", "--output"}) = {}
           THEN res.output = "appraisal.pdf"
           ELSE res.output \in FollowersOf(arg, {"-o", "--output"})

\* ------------------------------------------------------------------------
\* The two generators on the parsed document
\* ------------------------------------------------------------------------

\* A run of generate(doc, data) or a call of buildHTML(data)
InitGenerators == Init \/ InitHTML

NextGenerators == Next \/ NextHTML

SpecGenerators == InitGenerators /\ [][NextGenerators]_vars

\* ------------------------------------------------------------------------
\* C16.  No step of generate(doc, data) and no call of buildHTML(data)
\* changes the parsed document: meta, tabs, sections, comments and
\* hierarchy nodes are after the step what they were before it.
\* ------------------------------------------------------------------------
C16_InputNotMutated == [][data' = data]_vars

\* A finished run of generate over two Tabs with a page break, and the
\* document it was given
C16_Witness ==
    /\ pc = "done"
    /\ Len(data.tabs) >= 2
    /\ Len(doc.pages) > Len(data.tabs)
    /\ \E i \in TabNos : Len(data.tabs[i].sections) >= 1

\* --- vocabulary of the omission claim

\* The elements of class c among es
OfClass(es, c) == SelectSeq(es, LAMBDA e : e.cls = <<c>>)

\* The pills of a badge row: class "pill", "pill status" or "pill <priority>"
PillsIn(es) == SelectSeq(es, LAMBDA e : e.tag = "span" /\ Len(e.cls) > 0
                                         /\ e.cls[1] \in {"pill", "pill status"})

ChipsIn(es) == SelectSeq(es, LAMBDA e : e.tag = "span" /\ Len(e.cls) > 0
                                         /\ e.cls[1] \in {"chip info", "chip ok", "chip rate"})

Missing(v) == ~Defined(v)

\* The comment box el emits nothing for the missing avatar, chips and rating
CommentOmits(el, c) ==
    LET all == Flatten(el) IN
    /\ Missing(c.avatar) => Len(SelectSeq(all, LAMBDA e : e.tag = "img")) = 0
    /\ Missing(c.chips) => Len(PillsIn(all)) = 0
    /\ Missing(c.rating) => Len(ChipsIn(all)) = 0

\* The Section card el emits nothing for the missing fields of Section s
SectionOmits(el, s) ==
    LET row == el.kids[2].kids
        boxes == OfClass(el.kids, "comment")
    IN
    /\ Missing(s.weightage) => Len(OfClass(row, "chip info")) = 0
    /\ Missing(s.expectedRating) => Len(OfClass(row, "chip ok")) = 0
    /\ Missing(s.rating) => Len(OfClass(row, "chip rate")) = 0
    /\ Missing(s.labels) => Len(PillsIn(row)) = 0
    /\ (Missing(s.description) /\ Missing(s.behaviors)) => Len(OfClass(el.kids, "para")) = 0
    /\ Missing(s.comments) => Len(boxes) = 0
    /\ Len(boxes) = Len(Items(s.comments))
    /\ \A k \in 1..Len(boxes) : CommentOmits(boxes[k], s.comments.items[k])

\* The node box el emits no progress ring for a node without progress
RECURSIVE NodeOmitsProgress(_, _)
NodeOmitsProgress(el, node) ==
    /\ Missing(node.progressPercent) => Len(OfClass(Flatten(el.kids[1]), "donut")) = 0
    /\ \A k \in 1..Len(NodeKids(el)) :
          NodeOmitsProgress(NodeKids(el)[k], node.children.items[k])

\* The node box el emits nothing for the other missing fields of the node
RECURSIVE NodeOmitsOthers(_, _)
NodeOmitsOthers(el, node) ==
    LET head == Flatten(el.kids[1])
        boxes == OfClass(el.kids, "comment")
    IN
    /\ (/\ Missing(node.date) /\ Missing(node.kpi) /\ Missing(node.categoryName)
        /\ Missing(node.categoryType) /\ Missing(node.weightage)
        /\ Missing(node.priority) /\ Missing(node.presentStatus))
          => Len(PillsIn(head)) = 0
    /\ Missing(node.rating) => Len(ChipsIn(head)) = 0
    /\ Missing(node.description) => Len(OfClass(el.kids, "para")) = 0
    /\ Missing(node.comments) => Len(boxes) = 0
    /\ Len(boxes) = Len(Items(node.comments))
    /\ \A k \in 1..Len(boxes) : CommentOmits(boxes[k], node.comments.items[k])
    /\ Missing(node.children) => Len(ChildrenBlocks(el)) = 0
    /\ Len(NodeKids(el)) = Len(Items(node.children))
    /\ \A k \in 1..Len(NodeKids(el)) :
          NodeOmitsOthers(NodeKids(el)[k], node.children.items[k])

\* The container of Tab i emits nothing for the missing fields of the Tab,
\* of its Sections and of the report's meta
TabOmits(i) ==
    LET page == PageEls[i]
        tab == data.tabs[i]
        content == ContentOf(page).kids
        cards == OfClass(content, "card")
    IN
    /\ Missing(tab.sections) => Len(cards) = 0
    /\ Len(cards) = Len(Items(tab.sections))
    /\ \A k \in 1..Len(cards) : SectionOmits(cards[k], tab.sections.items[k])
    /\ Missing(tab.review) => Len(OfClass(content, "review")) = 0
    /\ (Missing(tab.reviewEndMarker) /\ Missing(tab.hierarchyEndMarker))
          => Len(OfClass(content, "section-end")) = 0
    /\ Missing(tab.hierarchy) => Len(OfClass(content, "node")) = 0
    /\ Missing(data.meta.ratingDetails) => Len(OfClass(page.kids, "panel")) = 0
    /\ Missing(Field(data.meta.employee, "avatar"))
          => Len(SelectSeq(Flatten(page.kids[1]), LAMBDA e : e.tag = "img")) = 0

\* ------------------------------------------------------------------------
\* C17.  buildHTML returns markup for every document, and in it a missing
\* optional field has no element: no chip for a missing weightage, expected
\* rating or rating, no pill for missing labels, chips, date, KPI, category,
\* priority or status, no paragraph for a missing description or behaviors,
\* no comment box, avatar image, review block, end marker, node box or
\* children block for a missing one, and no progress ring for a node
\* without progress.
\* ------------------------------------------------------------------------
C17_MissingFieldsOmitted ==
    /\ pc = "html" => \E h \in {buildHTML(data)} : h.t = "html"
    /\ html.t = "html" =>
          \A i \in 1..Len(PageEls) :
             LET roots == RootNodesOf(PageEls[i])
                 nodes == Items(Field(data.tabs[i].hierarchy, "nodes"))
             IN /\ TabOmits(i)
                /\ Len(roots) = Len(nodes)
                /\ \A k \in 1..Len(roots) :
                      /\ NodeOmitsOthers(roots[k], nodes[k])
                      /\ NodeOmitsProgress(roots[k], nodes[k])

\* C17 without the progress ring: every other missing field is omitted
C17_OtherFieldsOmitted ==
    html.t = "html" =>
        \A i \in 1..Len(PageEls) :
           LET roots == RootNodesOf(PageEls[i])
               nodes == Items(Field(data.tabs[i].hierarchy, "nodes"))
           IN /\ TabOmits(i)
              /\ Len(roots) = Len(nodes)
              /\ \A k \in 1..Len(roots) : NodeOmitsOthers(roots[k], nodes[k])

\* --- vocabulary of the vertical-flow claim

\* The Section cards drawn on page p, as positions in its list of blocks
CardsOn(p) == {b \in 1..Len(doc.pages[p].blocks) : doc.pages[p].blocks[b].kind = "card"}

\* Two rectangles that share more than an edge, vertically
OverlapV(a, b) == a.top < b.top + b.h /\ b.top < a.top + a.h

\* The card the last drawSection drew: the last block of the current page
LastCard(d) == d.pages[Len(d.pages)].blocks[Len(d.pages[Len(d.pages)].blocks)]

\* ------------------------------------------------------------------------
\* C19.  Every drawSection starts its card at or below the cursor generate
\* holds in y (ContentTop for the first Section of a Tab, the value the
\* preceding drawSection returned for the others), and at every moment the
\* cards of two Sections on one page do not overlap vertically.
\* ------------------------------------------------------------------------
C19_VerticalFlow ==
    /\ [](\A p \in 1..Len(doc.pages) :
            \A a, b \in CardsOn(p) :
               a # b => ~OverlapV(doc.pages[p].blocks[a], doc.pages[p].blocks[b]))
    /\ [][(pc = "sections" /\ sIdx' = sIdx + 1) => LastCard(doc').top >= y]_vars

\* ------------------------------------------------------------------------
\* drawTabs on its own: the bar of a document with up to MaxBarTabs tabs
\* ------------------------------------------------------------------------
MaxBarTabs == 8

BarTabs(n) == [i \in 1..n |-> NewTab(i)]

\* A fresh page, with the maps generate has filled for every tab or for none
InitTabs ==
    /\ \E n \in 1..MaxBarTabs :
          /\ data = [meta |-> Meta, tabs |-> BarTabs(n)]
          /\ destMap \in {<< >>, [i \in 1..n |-> DestName(BarTabs(n), i)]}
          /\ pageMap \in {<< >>, [i \in 1..n |-> i]}
    /\ doc \in {NewDocument(ok) : ok \in BOOLEAN}
    /\ pc = "bar"
    /\ idx = 0
    /\ sIdx = 0
    /\ y = 0
    /\ html = None
    /\ arg = None
    /\ res = None
    /\ proc = None

\* drawTabs(doc, tabs, activeIndex, margin, destMap, pageMap)
DrawTabs ==
    /\ pc = "bar"
    /\ \E activeIndex \in 1..Len(data.tabs) :
          /\ doc' = drawTabs(doc, data.tabs, activeIndex, Margin, destMap, pageMap)
          /\ idx' = activeIndex
    /\ pc' = "drawn"
    /\ UNCHANGED <<data, sIdx, y, destMap, pageMap, html, arg, res, proc>>

NextTabs == DrawTabs

SpecTabs == InitTabs /\ [][NextTabs]_vars

\* ------------------------------------------------------------------------
\* C20.  The bar drawTabs has drawn holds one pill per tab; every pill but
\* the first starts exactly one gap (mm(3)) after the end of the one before
\* it, and the last pill ends at or before A4_WIDTH - margin.
\* ------------------------------------------------------------------------
C20_PillsWithinUsableWidth ==
    pc = "drawn" =>
        LET pills == doc.pages[1].pills
            n == Len(data.tabs)
        IN /\ Len(pills) = n
           /\ pills[1].x = Margin
           /\ \A i \in 1..(n - 1) : pills[i + 1].x = pills[i].x + pills[i].w + mm(3)
           /\ pills[n].x + pills[n].w <= A4_WIDTH - Margin

\* C20 for the bars of at most five tabs
C20_UpToFiveTabs ==
    Len(data.tabs) <= 5 => C20_PillsWithinUsableWidth

====
